---- MODULE Spec2Model ----
(***************************************************************************)
(* Model of the conversation-aware RAG backend:                            *)
(*   conversation_manager.py  the Session Store (ConversationManager)      *)
(*   main.py                  the /ask orchestrator, its buffered and      *)
(*                            streaming handlers, the periodic cleanup and *)
(*                            the DELETE /conversations endpoint           *)
(*   utils.py                 answer generation, query enhancement,        *)
(*                            source formatting                            *)
(*   database.py              the threshold filter of QdrantVectorDB.search*)
(*   document_processors.py   the chunking loop TextProcessor._split_text  *)
(*                                                                         *)
(* Texts are sequences of characters; each fixed user-facing sentence is   *)
(* a text of one element (it has no leading or trailing whitespace).       *)
(* Scores are integers in units of 1/100000, so 0.5 is 50000.              *)
(* Time is datetime.now() in whole seconds.                                *)
(***************************************************************************)
EXTENDS Integers, Sequences, FiniteSets, TLC

VARIABLES
    conversations,  \* ConversationManager.conversations: id -> conversation dict
    now,            \* the wall clock read by datetime.now()
    uuid_count,     \* how many uuid4 values have been drawn so far
    appended,       \* history variable: id -> every message ever appended to it
    requests,       \* the /ask requests: request number -> its local state
    wake,           \* the time at which periodic_cleanup's sleep ends
    returned,       \* what the step just taken returned, when it is a sweep
    call,           \* the inputs of a function exercised on its own
    ret,            \* and what it has come to so far
    threads         \* the threads inside the store's methods, statement by statement

vars == <<conversations, now, uuid_count, appended, requests, wake, returned, call, ret,
         threads>>
harness == <<call, ret, threads>>

(***************************************************************************)
(* Bounds of the model                                                     *)
(***************************************************************************)
MaxConversations == 2   \* uuid4 values drawn in one run
MaxAppends == 4         \* direct add_message calls in one run of SpecStore
MaxTicks == 2           \* clock advances in one run
\* ConversationManager(max_history_per_conversation): the capacity the store is
\* constructed with. The global instance takes the default 10; the model builds
\* the store with a small capacity so that runs reach and pass it.
max_history == 3

(***************************************************************************)
(* Program constants                                                       *)
(***************************************************************************)
conversation_ttl == 3600    \* ConversationManager.__init__ default
cleanup_interval == 3600    \* asyncio.sleep(3600) in periodic_cleanup

None == "None"
\* dicts are records; {} is the record without fields and an omitted Optional[Dict]
\* argument (Python None) is NoMetadata
EmptyDict == [k \in {} |-> None]
NoMetadata == [is_none |-> TRUE]

\* str(uuid.uuid4()): the n-th value drawn; uuid4 values are pairwise distinct
\* and differ from every string a caller made up.
UuidNames == <<"uuid-1", "uuid-2", "uuid-3", "uuid-4", "uuid-5", "uuid-6">>
uuid4(n) == UuidNames[n]

\* Python truthiness of an Optional[str]
Truthy(s) == s # None /\ s # ""

\* The instants at which the clock is read: 0, ttl, ttl + 1, 2 ttl + 1, 2 ttl + 2, ...
\* (alternately a whole ttl and one second later), so that a conversation is seen
\* at age 0, 1, exactly ttl and just past ttl.
NextInstant(t) ==
    IF t % (conversation_ttl + 1) = 0 THEN t + conversation_ttl ELSE t + 1
\* how many instants precede t
TickCount(t) ==
    2 * (t \div (conversation_ttl + 1))
      + (IF t % (conversation_ttl + 1) = 0 THEN 0 ELSE 1)

(***************************************************************************)
(* ConversationManager                                                     *)
(***************************************************************************)
\* messages[-n:] for n > 0
LastN(s, n) == IF Len(s) <= n THEN s ELSE SubSeq(s, Len(s) - n + 1, Len(s))

\* the dict with key k bound to v (insert or overwrite)
DictSet(d, k, v) == [x \in DOMAIN d \cup {k} |-> IF x = k THEN v ELSE d[x]]

\* the dict without the keys in ks
DictDel(d, ks) == [x \in DOMAIN d \ ks |-> d[x]]

create_conversation(convs, t, conversation_id) ==
    DictSet(convs, conversation_id,
            [id |-> conversation_id, created_at |-> t, updated_at |-> t,
             messages |-> <<>>])

conversation_exists(convs, conversation_id) == conversation_id \in DOMAIN convs

\* d or {}
OrEmpty(d) == IF d = NoMetadata \/ d = EmptyDict THEN EmptyDict ELSE d

NewMessage(role, content, metadata) ==
    [role |-> role, content |-> content, metadata |-> OrEmpty(metadata)]

\* variant: the trim starts one message too late
TrimHistoryLate(messages) ==
    IF Len(messages) > max_history + 1 THEN LastN(messages, max_history) ELSE messages

\* variant: the trim keeps the oldest messages, messages[:max_history]
TrimHistoryOldest(messages) ==
    IF Len(messages) > max_history THEN SubSeq(messages, 1, max_history) ELSE messages

\* lines 43-44
TrimHistory(messages) ==
    IF Len(messages) > max_history THEN LastN(messages, max_history) ELSE messages

\* variant: an unknown id gets a conversation of its own (setdefault)
add_message_creating(convs, t, conversation_id, role, content, metadata) ==
    DictSet(convs, conversation_id,
            [id |-> conversation_id,
             created_at |-> IF conversation_id \in DOMAIN convs
                            THEN convs[conversation_id].created_at ELSE t,
             updated_at |-> t,
             messages |->
                TrimHistory(Append(IF conversation_id \in DOMAIN convs
                                   THEN convs[conversation_id].messages ELSE <<>>,
                                   NewMessage(role, content, metadata)))])

\* lines 27-44
add_message(convs, t, conversation_id, role, content, metadata) ==
    IF conversation_id \notin DOMAIN convs
    THEN convs
    ELSE [convs EXCEPT
            ![conversation_id].messages =
                TrimHistory(Append(@, NewMessage(role, content, metadata))),
            ![conversation_id].updated_at = t]

\* variant: a conversation idle for exactly the ttl counts as expired
IsExpiredAtTtl(conv_data, t) == t - conv_data.updated_at >= conversation_ttl

\* line 70
IsExpired(conv_data, t) == t - conv_data.updated_at > conversation_ttl

expired_ids(convs, t) == {conv_id \in DOMAIN convs : IsExpired(convs[conv_id], t)}

\* returns the new dict and the number of conversations removed
cleanup_expired_conversations(convs, t) ==
    [conversations |-> DictDel(convs, expired_ids(convs, t)),
     count |-> Cardinality(expired_ids(convs, t))]

\* limit is Optional[int]: <<>> is None, <<n>> is the integer n
\* s[k:] for any integer k
SliceFrom(s, k) ==
    LET start == IF k >= 0 THEN k + 1 ELSE IF Len(s) + k < 0 THEN 1 ELSE Len(s) + k + 1
    IN  IF start > Len(s) THEN <<>> ELSE SubSeq(s, start, Len(s))

get_conversation_history(convs, conversation_id, limit) ==
    IF conversation_id \notin DOMAIN convs THEN <<>>
    ELSE IF limit # <<>> /\ limit[1] # 0
         THEN SliceFrom(convs[conversation_id].messages, 0 - limit[1])
         ELSE convs[conversation_id].messages

get_recent_context(convs, conversation_id, max_messages) ==
    get_conversation_history(convs, conversation_id, <<max_messages>>)

(***************************************************************************)
(* utils.py                                                                *)
(***************************************************************************)
\* the result of a call: a value, or an exception
Ok(v) == [raised |-> FALSE, value |-> v]
Raise == [raised |-> TRUE, value |-> <<>>]

DegradedMessage == <<"Error: Sistem sedang gangguan.">>
NoEvidenceAnswer ==
    <<"Maaf, saya tidak menemukan informasi yang relevan tentang pertanyaan Anda di dokumentasi API Telkom.">>
LowRelevanceAnswer ==
    <<"Maaf, informasi yang saya miliki tidak cukup relevan untuk menjawab pertanyaan tersebut.">>

IsSpace(c) == c = " "

RECURSIVE LStrip(_)
LStrip(text) ==
    IF text # <<>> /\ IsSpace(Head(text)) THEN LStrip(Tail(text)) ELSE text

RECURSIVE RStrip(_)
RStrip(text) ==
    IF text # <<>> /\ IsSpace(text[Len(text)])
    THEN RStrip(SubSeq(text, 1, Len(text) - 1)) ELSE text

\* str.strip()
Strip(text) == RStrip(LStrip(text))

RECURSIVE Join(_, _)
\* sep.join(texts)
Join(sep, texts) ==
    IF texts = <<>> THEN <<>>
    ELSE IF Len(texts) = 1 THEN texts[1]
    ELSE texts[1] \o sep \o Join(sep, Tail(texts))

\* variant: the failure of the backend is passed on to the caller
generate_response_with_ollama_raising(outcome) ==
    IF outcome.raised THEN Raise ELSE Ok(Strip(outcome.value))

\* ollama.generate(...) either raises or returns {'response': text};
\* the outcome is [raised, value]
generate_response_with_ollama(outcome) ==
    IF outcome.raised THEN Ok(DegradedMessage) ELSE Ok(Strip(outcome.value))

\* one next() on the generator returned by generate_stream_response_with_ollama.
\* g is "active" until the backend has raised, chunks are the chunks the backend
\* has still to deliver, fail says whether the backend raises now.
RECURSIVE SkipNoResponse(_)
SkipNoResponse(chunks) ==
    IF chunks # <<>> /\ "response" \notin DOMAIN Head(chunks)
    THEN SkipNoResponse(Tail(chunks)) ELSE chunks

\* variant: the failure of the backend is not caught inside the generator
generate_stream_response_with_ollama_raising(g, chunks, fail) ==
    IF g # "active"
    THEN Ok([kind |-> "end", token |-> <<>>, g |-> g, chunks |-> chunks])
    ELSE IF fail THEN Raise
    ELSE IF SkipNoResponse(chunks) = <<>>
    THEN Ok([kind |-> "end", token |-> <<>>, g |-> "ended", chunks |-> <<>>])
    ELSE Ok([kind |-> "token", token |-> Head(SkipNoResponse(chunks)).response,
             g |-> "active", chunks |-> Tail(SkipNoResponse(chunks))])

\* variant: after the fallback fragment the generator goes on with the chunks
generate_stream_response_with_ollama_resuming(g, chunks, fail) ==
    IF g # "active"
    THEN Ok([kind |-> "end", token |-> <<>>, g |-> g, chunks |-> chunks])
    ELSE IF fail
    THEN Ok([kind |-> "token", token |-> DegradedMessage, g |-> "active",
             chunks |-> chunks])
    ELSE IF SkipNoResponse(chunks) = <<>>
    THEN Ok([kind |-> "end", token |-> <<>>, g |-> "ended", chunks |-> <<>>])
    ELSE Ok([kind |-> "token", token |-> Head(SkipNoResponse(chunks)).response,
             g |-> "active", chunks |-> Tail(SkipNoResponse(chunks))])

generate_stream_response_with_ollama(g, chunks, fail) ==
    IF g # "active"
    THEN Ok([kind |-> "end", token |-> <<>>, g |-> g, chunks |-> chunks])
    ELSE IF fail
    THEN Ok([kind |-> "token", token |-> DegradedMessage, g |-> "failed",
             chunks |-> chunks])
    ELSE IF SkipNoResponse(chunks) = <<>>
    THEN Ok([kind |-> "end", token |-> <<>>, g |-> "ended", chunks |-> <<>>])
    ELSE Ok([kind |-> "token", token |-> Head(SkipNoResponse(chunks)).response,
             g |-> "active", chunks |-> Tail(SkipNoResponse(chunks))])

UserContents(history) ==
    LET users == SelectSeq(history, LAMBDA msg : msg.role = "user")
    IN  [i \in 1..Len(users) |-> users[i].content]

build_enhanced_query(question, conversation_history) ==
    IF conversation_history = <<>> THEN question
    ELSE LET recent_user_messages == UserContents(SliceFrom(conversation_history, -2))
         IN  IF Len(recent_user_messages) > 1
             THEN question \o <<" [Konteks: ">>
                    \o Join(<<" ">>, SubSeq(recent_user_messages, 1,
                                            Len(recent_user_messages) - 1))
                    \o <<"]">>
             ELSE question

\* round(x, 4) on a score held in units of 1/100000 (ties to even)
Round4(x) ==
    LET q == x \div 10
        r == x % 10
    IN  IF r > 5 \/ (r = 5 /\ q % 2 = 1) THEN (q + 1) * 10 ELSE q * 10

format_sources(sources) ==
    [i \in 1..Len(sources) |->
        [text |-> sources[i].text,
         metadata |-> OrEmpty(sources[i].metadata),
         score |-> Round4(sources[i].score)]]

(***************************************************************************)
(* database.py                                                             *)
(***************************************************************************)
similarity_threshold == 50000   \* QdrantVectorDB.__init__ default 0.5

\* variant: a score equal to the threshold is not enough
filtered_results_strict(results, threshold) ==
    SelectSeq(results, LAMBDA result : result.score > threshold)

\* lines 89-98: the list comprehension over the points client.search returned
filtered_results(results, threshold) ==
    SelectSeq(results, LAMBDA result : result.score >= threshold)

\* QdrantVectorDB.search of an instance built with the given threshold.
\* client.search(...) either raises or returns scored points; the outcome is
\* [raised, value]
QdrantVectorDB_search(self_similarity_threshold, outcome) ==
    IF outcome.raised THEN Raise
    ELSE Ok(filtered_results(outcome.value, self_similarity_threshold))

\* variant: the global instance hands on whatever client.search returned
search_unfiltered(outcome) == outcome

\* vector_db.search: the global instance, built with the default threshold
search(outcome) == QdrantVectorDB_search(similarity_threshold, outcome)

(***************************************************************************)
(* document_processors.py: TextProcessor._split_text                       *)
(***************************************************************************)
MaxChunks == 6          \* chunks of the list the model keeps (the first ones)

\* text[start:stop] for any integers start and stop
PySlice(text, start, stop) ==
    LET n == Len(text)
        clamp(k) == IF k < 0 THEN (IF k + n < 0 THEN 0 ELSE k + n)
                    ELSE IF k > n THEN n ELSE k
    IN  IF clamp(start) >= clamp(stop) THEN <<>>
        ELSE SubSeq(text, clamp(start) + 1, clamp(stop))

\* lines 20-21: the locals on entry to the loop
split_text_enter == [pc |-> "line22", start |-> 0, chunks |-> <<>>]

\* lines 22-28: at line 22 the test of the loop, which leads into the body
\* or to the return; at line 23 one run of the body, back to the test
split_text_step(text, chunk_size, chunk_overlap, locals) ==
    IF locals.pc = "line22"
    THEN IF locals.start < Len(text)
         THEN [locals EXCEPT !.pc = "line23"]
         ELSE [locals EXCEPT !.pc = "returned"]
    ELSE LET end == IF locals.start + chunk_size > Len(text)
                    THEN Len(text) ELSE locals.start + chunk_size
         IN  [pc |-> "line22",
              start |-> end - chunk_overlap,
              chunks |-> IF Len(locals.chunks) < MaxChunks
                         THEN Append(locals.chunks, PySlice(text, locals.start, end))
                         ELSE locals.chunks]

(***************************************************************************)
(* main.py: POST /ask                                                      *)
(***************************************************************************)
answer_threshold == 30000       \* max_score < 0.3 in ask_question

RECURSIVE MaxScore(_)
\* max([result["score"] for result in results]), results not empty
MaxScore(results) ==
    IF Len(results) = 1 THEN results[1].score
    ELSE LET m == MaxScore(Tail(results))
         IN  IF results[1].score >= m THEN results[1].score ELSE m

\* variant: the caller's id is used without asking the store whether it exists
ResolveUnchecked(convs, t, n, query_conversation_id) ==
    IF ~Truthy(query_conversation_id)
    THEN [conversation_id |-> uuid4(n + 1),
          conversations |-> create_conversation(convs, t, uuid4(n + 1)),
          uuid_count |-> n + 1]
    ELSE [conversation_id |-> query_conversation_id,
          conversations |-> convs,
          uuid_count |-> n]

\* variant: an unknown id is adopted as the id of the conversation created
ResolveAdoptsUnknown(convs, t, n, query_conversation_id) ==
    IF Truthy(query_conversation_id) /\ conversation_exists(convs, query_conversation_id)
    THEN [conversation_id |-> query_conversation_id,
          conversations |-> convs,
          uuid_count |-> n]
    ELSE IF Truthy(query_conversation_id)
    THEN [conversation_id |-> query_conversation_id,
          conversations |-> create_conversation(convs, t, query_conversation_id),
          uuid_count |-> n]
    ELSE [conversation_id |-> uuid4(n + 1),
          conversations |-> create_conversation(convs, t, uuid4(n + 1)),
          uuid_count |-> n + 1]

\* lines 133-142: validate the caller's id, create a conversation if none is valid
ResolveConversation(convs, t, n, query_conversation_id) ==
    LET conversation_id ==
            IF Truthy(query_conversation_id)
               /\ ~conversation_exists(convs, query_conversation_id)
            THEN None ELSE query_conversation_id
    IN  IF ~Truthy(conversation_id)
        THEN [conversation_id |-> uuid4(n + 1),
              conversations |-> create_conversation(convs, t, uuid4(n + 1)),
              uuid_count |-> n + 1]
        ELSE [conversation_id |-> conversation_id,
              conversations |-> convs,
              uuid_count |-> n]

\* variant: a maximum score equal to the threshold is still too low
GateRelevanceInclusive(results) ==
    IF results = <<>> THEN "NoEvidence"
    ELSE IF MaxScore(results) <= answer_threshold THEN "LowRelevance"
    ELSE "Generate"

\* variant: any passage at all is enough to generate
GateRelevanceNoFloor(results) ==
    IF results = <<>> THEN "NoEvidence" ELSE "Generate"

\* lines 162-230: which way the cycle goes once retrieval has returned
GateRelevance(results) ==
    IF results = <<>> THEN "NoEvidence"
    ELSE IF MaxScore(results) < answer_threshold THEN "LowRelevance"
    ELSE "Generate"

RAGResponse(answer, sources, question, conversation_id) ==
    [answer |-> answer, sources |-> sources, question |-> question,
     conversation_id |-> conversation_id]

NoBody == RAGResponse(<<>>, <<>>, <<>>, None)

\* background_tasks.add_task(conversation_manager.add_message, ...)
Task(conversation_id, role, content, metadata) ==
    [conversation_id |-> conversation_id, role |-> role, content |-> content,
     metadata |-> metadata]

\* variant: only the user's turn is scheduled
TurnTasksUserOnly(conversation_id, question, answer, user_metadata, assistant_metadata) ==
    << Task(conversation_id, "user", question, user_metadata) >>

\* variant: the assistant's turn is scheduled first
TurnTasksSwapped(conversation_id, question, answer, user_metadata, assistant_metadata) ==
    << Task(conversation_id, "assistant", answer, assistant_metadata),
       Task(conversation_id, "user", question, user_metadata) >>

\* the two add_task calls of a branch, in program order
TurnTasks(conversation_id, question, answer, user_metadata, assistant_metadata) ==
    << Task(conversation_id, "user", question, user_metadata),
       Task(conversation_id, "assistant", answer, assistant_metadata) >>

NormalUserMetadata(results) ==
    [has_relevant_docs |-> TRUE, doc_count |-> Len(results),
     max_score |-> MaxScore(results)]

NormalAssistantMetadata(results) ==
    [has_relevant_docs |-> TRUE, sources_count |-> Len(results)]

\* the local state of a request nothing has happened to yet
NewRequest(question, stream, query_conversation_id) ==
    [pc |-> "start", question |-> question, stream |-> stream,
     query_conversation_id |-> query_conversation_id,
     conversation_id |-> None, created |-> FALSE,
     enhanced_query |-> <<>>, search_raised |-> FALSE, results |-> <<>>,
     branch |-> "None", llm_called |-> FALSE, llm_failed |-> FALSE,
     status |-> 0, body |-> NoBody,
     g |-> "active", chunks |-> <<>>, full_answer |-> <<>>, events |-> <<>>,
     tasks |-> <<>>, ran |-> <<>>]

\* lines 162-186
NoEvidenceBranch(req) ==
    [req EXCEPT
        !.pc = "returned", !.status = 200, !.branch = "NoEvidence",
        !.body = RAGResponse(NoEvidenceAnswer, <<>>, req.question, req.conversation_id),
        !.tasks = req.tasks \o
            TurnTasks(req.conversation_id, req.question, NoEvidenceAnswer,
                      [has_relevant_docs |-> FALSE], [has_relevant_docs |-> FALSE])]

\* lines 188-213
LowRelevanceBranch(req) ==
    LET max_score == MaxScore(req.results)
        metadata == [has_relevant_docs |-> FALSE, max_score |-> max_score]
    IN  [req EXCEPT
            !.pc = "returned", !.status = 200, !.branch = "LowRelevance",
            !.body = RAGResponse(LowRelevanceAnswer, format_sources(req.results),
                                 req.question, req.conversation_id),
            !.tasks = req.tasks \o
                TurnTasks(req.conversation_id, req.question, LowRelevanceAnswer,
                          metadata, metadata)]

\* lines 232-235: except Exception -> HTTPException(status_code=500)
ErrorResponse(req) ==
    [req EXCEPT !.pc = "error", !.status = 500, !.branch = "Error"]

\* lines 237-267; llm is the outcome of ollama.generate
handle_normal_response(req, llm) ==
    LET answer == generate_response_with_ollama(llm)
    IN  IF answer.raised
        THEN ErrorResponse([req EXCEPT !.llm_called = TRUE, !.llm_failed = llm.raised])
        ELSE [req EXCEPT
                !.pc = "returned", !.status = 200, !.branch = "Generate",
                !.llm_called = TRUE, !.llm_failed = llm.raised,
                !.body = RAGResponse(answer.value, format_sources(req.results),
                                     req.question, req.conversation_id),
                !.tasks = req.tasks \o
                    TurnTasks(req.conversation_id, req.question, answer.value,
                              NormalUserMetadata(req.results),
                              NormalAssistantMetadata(req.results))]

\* lines 269-321: the StreamingResponse is returned, its generator not yet started;
\* chunks is what the backend will deliver if it does not fail
handle_streaming_response(req, chunks) ==
    [req EXCEPT
        !.pc = "streaming", !.status = 200, !.branch = "Generate",
        !.chunks = chunks, !.g = "active", !.full_answer = <<>>]

\* lines 160-235: the handler from the return of vector_db.search to its own
\* return. results is the outcome of the search, llm the outcome of
\* ollama.generate (buffered) and chunks the chunks of the backend's stream.
after_search(req, results, llm, chunks) ==
    IF results.raised THEN ErrorResponse([req EXCEPT !.search_raised = TRUE])
    ELSE LET req1 == [req EXCEPT !.results = results.value]
         IN  IF GateRelevance(results.value) = "NoEvidence" THEN NoEvidenceBranch(req1)
             ELSE IF GateRelevance(results.value) = "LowRelevance"
                  THEN LowRelevanceBranch(req1)
             ELSE IF req.stream THEN handle_streaming_response(req1, chunks)
             ELSE handle_normal_response(req1, llm)

\* lines 130-235: the handler up to its return. query is the request body,
\* searched the outcome of client.search, llm and chunks as above.
ask_question(convs, t, n, query, searched, llm, chunks) ==
    LET resolved == ResolveConversation(convs, t, n, query.conversation_id)
        conversation_id == resolved.conversation_id
        conversation_history ==
            get_recent_context(resolved.conversations, conversation_id, 3)
        enhanced_query == build_enhanced_query(query.question, conversation_history)
        req == [NewRequest(query.question, query.stream, query.conversation_id)
                    EXCEPT !.conversation_id = conversation_id,
                           !.created = (resolved.uuid_count # n),
                           !.enhanced_query = enhanced_query]
    IN  [conversations |-> resolved.conversations,
         uuid_count |-> resolved.uuid_count,
         request |-> after_search(req, search(searched), llm, chunks)]

StreamEvent(token, conversation_id, is_final) ==
    [token |-> token, conversation_id |-> conversation_id, is_final |-> is_final]

\* lines 273-292: generate_stream resumed until its next yield; pulled is what
\* next() on the token generator gave ([raised, value] with value its result)
generate_stream(req, pulled) ==
    IF pulled.raised
    THEN [req EXCEPT
            !.pc = "final", !.llm_called = TRUE, !.full_answer = DegradedMessage,
            !.events = Append(@, StreamEvent(DegradedMessage, req.conversation_id, TRUE))]
    ELSE IF pulled.value.kind = "token"
    THEN [req EXCEPT
            !.llm_called = TRUE,
            !.llm_failed = (pulled.value.g = "failed"),
            !.g = pulled.value.g, !.chunks = pulled.value.chunks,
            !.full_answer = @ \o pulled.value.token,
            !.events = Append(@, StreamEvent(pulled.value.token,
                                             req.conversation_id, FALSE))]
    ELSE [req EXCEPT
            !.pc = "final", !.llm_called = TRUE,
            !.g = pulled.value.g, !.chunks = pulled.value.chunks,
            !.events = Append(@, StreamEvent(<<>>, req.conversation_id, TRUE))]

\* lines 294-310: the finally block, run when the generator is resumed after
\* its last yield and finishes
generate_stream_finally(req) ==
    [req EXCEPT
        !.pc = "sent",
        !.tasks = req.tasks \o
            TurnTasks(req.conversation_id, req.question, req.full_answer,
                      NormalUserMetadata(req.results),
                      NormalAssistantMetadata(req.results))]

(***************************************************************************)
(* main.py: DELETE /conversations/{conversation_id}                        *)
(***************************************************************************)
\* variant: the conversation named is the one removed
delete_conversation_targeted(convs, t, conversation_id) ==
    IF conversation_exists(convs, conversation_id)
    THEN [conversations |-> DictDel(convs, {conversation_id}), status |-> 200,
          cleaned |-> 1]
    ELSE [conversations |-> convs, status |-> 404, cleaned |-> 0]

\* lines 345-360: the store afterwards, the status of the response, and what
\* the sweep the handler ran returned (the handler drops it)
delete_conversation(convs, t, conversation_id) ==
    IF conversation_exists(convs, conversation_id)
    THEN [conversations |-> cleanup_expired_conversations(convs, t).conversations,
          status |-> 200,
          cleaned |-> cleanup_expired_conversations(convs, t).count]
    ELSE [conversations |-> convs, status |-> 404, cleaned |-> 0]

(***************************************************************************)
(* The initial state: ConversationManager() and a freshly started process  *)
(***************************************************************************)
Roles == {"user", "assistant"}

\* the threads that run the store's methods: the workers of the thread pool,
\* which run the add_message background tasks, and the event loop's thread,
\* which runs the sweep. calls is the record of the add_message calls made.
Workers == {1, 2}
IdleWorker == [pc |-> "idle", call |-> 0, sliced |-> <<>>]
IdleSweep == [pc |-> "idle", expired_ids |-> {}]
IdleThreads == [workers |-> [w \in Workers |-> IdleWorker], sweep |-> IdleSweep,
                calls |-> <<>>]

NoCall == [fn |-> "none"]
NoRet == [pc |-> "none"]
NoReturn == [op |-> "none", count |-> 0, status |-> 0]
\* cleaned = conversation_manager.cleanup_expired_conversations()
Cleaned(count) == [op |-> "cleanup", count |-> count, status |-> 0]
\* the response of DELETE /conversations/{conversation_id}: its status and the
\* id its message names; count is what the sweep inside it returned
Deleted(conversation_id, status, count) ==
    [op |-> "delete", count |-> count, status |-> status,
     conversation_id |-> conversation_id]

Init ==
    /\ conversations = EmptyDict
    /\ now = 0
    /\ uuid_count = 0
    /\ appended = EmptyDict
    /\ requests = <<>>
    /\ wake = cleanup_interval
    /\ returned = NoReturn
    /\ call = NoCall
    /\ ret = NoRet
    /\ threads = IdleThreads

\* datetime.now() moves on
Tick ==
    /\ TickCount(now) < MaxTicks
    /\ now' = NextInstant(now)
    /\ returned' = NoReturn
    /\ UNCHANGED <<conversations, uuid_count, appended, requests, wake, harness>>

\* history variable: what add_message was asked to append to a known id
LogAppend(log, convs, conversation_id, role, content, metadata) ==
    IF conversation_id \in DOMAIN convs
    THEN [log EXCEPT ![conversation_id] = Append(@, NewMessage(role, content, metadata))]
    ELSE log

RECURSIVE SumLen(_, _)
SumLen(log, ids) ==
    IF ids = {} THEN 0
    ELSE LET i == CHOOSE i \in ids : TRUE IN Len(log[i]) + SumLen(log, ids \ {i})

AppendCount == SumLen(appended, DOMAIN appended)

(***************************************************************************)
(* SpecStore: the Session Store driven directly through its methods        *)
(***************************************************************************)
\* the add_message calls made: (role, content, metadata)
StoreMessages == {<<"user", <<"q">>, NoMetadata>>,
                  <<"assistant", <<"a">>, [has_relevant_docs |-> FALSE]>>}
\* ids a caller can name: every uuid drawn so far and a made-up string
CallerIds == {uuid4(n) : n \in 1..uuid_count} \cup {"bogus"}

StoreCreate ==
    /\ uuid_count < MaxConversations
    /\ uuid_count' = uuid_count + 1
    /\ conversations' = create_conversation(conversations, now, uuid4(uuid_count + 1))
    /\ appended' = DictSet(appended, uuid4(uuid_count + 1), <<>>)
    /\ returned' = NoReturn
    /\ UNCHANGED <<now, requests, wake, harness>>

StoreAppend ==
    /\ AppendCount < MaxAppends
    /\ \E conversation_id \in CallerIds, m \in StoreMessages :
          /\ conversations' = add_message(conversations, now, conversation_id,
                                          m[1], m[2], m[3])
          /\ appended' = LogAppend(appended, conversations, conversation_id,
                                   m[1], m[2], m[3])
    /\ returned' = NoReturn
    /\ UNCHANGED <<now, uuid_count, requests, wake, harness>>

StoreSweep ==
    /\ conversations' = cleanup_expired_conversations(conversations, now).conversations
    /\ returned' = Cleaned(cleanup_expired_conversations(conversations, now).count)
    /\ UNCHANGED <<now, uuid_count, appended, requests, wake, harness>>

\* DELETE /conversations/{conversation_id} arrives and is answered
StoreDelete ==
    /\ \E conversation_id \in CallerIds :
          LET res == delete_conversation(conversations, now, conversation_id)
          IN  /\ conversations' = res.conversations
              /\ returned' = Deleted(conversation_id, res.status, res.cleaned)
    /\ UNCHANGED <<now, uuid_count, appended, requests, wake, harness>>

NextStore ==
    \/ StoreCreate
    \/ StoreAppend
    \/ StoreSweep
    \/ StoreDelete
    \/ Tick

SpecStore == Init /\ [][NextStore]_vars

(***************************************************************************)
(* Spec: the running service                                               *)
(***************************************************************************)
\* the /ask requests of a run, numbered in the order they arrive
Requests == {1, 2}
Questions == {<<"q">>}
\* query.stream == StreamOption.TRUE: whether the caller asked for a stream
StreamOptions == BOOLEAN
\* query.conversation_id: omitted, made up, or a uuid handed out earlier
AskIds == {None, "bogus"} \cup {uuid4(n) : n \in 1..uuid_count}

Passage(text, metadata, score) == [text |-> text, metadata |-> metadata, score |-> score]
\* what client.search can return (scores 0.81237, 0.4, 0.1)
RawResults ==
    { <<>>,
      <<Passage("d1", [domain |-> "api"], 81237), Passage("d2", NoMetadata, 40000)>>,
      <<Passage("d2", NoMetadata, 40000)>>,
      <<Passage("d3", NoMetadata, 10000)>> }
SearchOutcomes == {Raise} \cup {Ok(raw) : raw \in RawResults}

\* what the model can answer
LlmReplies == { <<"a", " ">> }
\* the chunks ollama streams for a reply: one per character, then one
\* without a 'response' key
ChunksOf(reply) ==
    [i \in 1..Len(reply) |-> [response |-> <<reply[i]>>]] \o <<[done |-> TRUE]>>

\* POST /ask arrives and its handler runs to the point where it returns
Ask ==
    /\ Len(requests) + 1 \in Requests
    /\ \E question \in Questions, stream \in StreamOptions, conversation_id \in AskIds,
          searched \in SearchOutcomes, reply \in LlmReplies, fail \in BOOLEAN :
          LET query == [question |-> question, stream |-> stream,
                        conversation_id |-> conversation_id]
              res == ask_question(conversations, now, uuid_count, query, searched,
                                  IF fail THEN Raise ELSE Ok(reply), ChunksOf(reply))
          IN  /\ res.uuid_count <= MaxConversations
              /\ conversations' = res.conversations
              /\ uuid_count' = res.uuid_count
              /\ appended' = IF res.uuid_count # uuid_count
                             THEN DictSet(appended, uuid4(res.uuid_count), <<>>)
                             ELSE appended
              /\ requests' = Append(requests, res.request)
    /\ returned' = NoReturn
    /\ UNCHANGED <<now, wake, harness>>

\* the RAGResponse reaches the caller
SendResponse(r) ==
    /\ requests[r].pc = "returned"
    /\ requests' = [requests EXCEPT ![r].pc = "sent"]
    /\ returned' = NoReturn
    /\ UNCHANGED <<conversations, now, uuid_count, appended, wake, harness>>

\* the StreamingResponse asks its generator for the next event and sends it
StreamNext(r) ==
    /\ requests[r].pc = "streaming"
    /\ \E fail \in BOOLEAN :
          requests' = [requests EXCEPT ![r] =
              generate_stream(@, generate_stream_response_with_ollama(
                                     requests[r].g, requests[r].chunks, fail))]
    /\ returned' = NoReturn
    /\ UNCHANGED <<conversations, now, uuid_count, appended, wake, harness>>

\* the generator is resumed after its final event and finishes
StreamClose(r) ==
    /\ requests[r].pc = "final"
    /\ requests' = [requests EXCEPT ![r] = generate_stream_finally(@)]
    /\ returned' = NoReturn
    /\ UNCHANGED <<conversations, now, uuid_count, appended, wake, harness>>

\* the response is out: the next background task of the request runs
RunBackgroundTask(r) ==
    /\ requests[r].pc = "sent"
    /\ requests[r].tasks # <<>>
    /\ LET task == Head(requests[r].tasks)
       IN  /\ conversations' = add_message(conversations, now, task.conversation_id,
                                           task.role, task.content, task.metadata)
           /\ appended' = LogAppend(appended, conversations, task.conversation_id,
                                    task.role, task.content, task.metadata)
           /\ requests' = [requests EXCEPT
                  ![r].tasks = Tail(@),
                  ![r].ran = Append(@, [role |-> task.role, content |-> task.content,
                                        applied |-> conversations' # conversations]),
                  ![r].pc = IF Tail(requests[r].tasks) = <<>> THEN "done" ELSE "sent"]
    /\ returned' = NoReturn
    /\ UNCHANGED <<now, uuid_count, wake, harness>>

\* main.py lines 34-39: periodic_cleanup wakes up and sweeps
PeriodicCleanup ==
    /\ now >= wake
    /\ conversations' = cleanup_expired_conversations(conversations, now).conversations
    /\ wake' = now + cleanup_interval
    /\ UNCHANGED <<now, uuid_count, appended, requests, returned, harness>>

\* main.py lines 345-360: DELETE /conversations/{conversation_id}
DeleteConversation ==
    /\ \E conversation_id \in CallerIds :
          conversations' = delete_conversation(conversations, now, conversation_id).conversations
    /\ UNCHANGED <<now, uuid_count, appended, requests, wake, returned, harness>>

Next ==
    \/ Ask
    \/ \E r \in 1..Len(requests) : SendResponse(r)
    \/ \E r \in 1..Len(requests) : StreamNext(r)
    \/ \E r \in 1..Len(requests) : StreamClose(r)
    \/ \E r \in 1..Len(requests) : RunBackgroundTask(r)
    \/ PeriodicCleanup
    \/ DeleteConversation
    \/ Tick

Spec == Init /\ [][Next]_vars

(***************************************************************************)
(* SpecGate: the ask-cycle from the return of the retrieval on, against    *)
(* any implementation of VectorDBInterface.search (interfaces.py), whose   *)
(* scores need not have passed a threshold of their own                    *)
(***************************************************************************)
\* scores 0.1, 0.29999, 0.3 and 0.81237
GateScores == {10000, 29999, 30000, 81237}
GatePassages == {Passage("d", NoMetadata, score) : score \in GateScores}
GateResults ==
    {<<>>} \cup {<<p>> : p \in GatePassages}
           \cup {<<p1, p2>> : p1 \in GatePassages, p2 \in GatePassages}

GateCalls ==
    {[fn |-> "after_search", results |-> results, stream |-> stream, fail |-> fail] :
        results \in GateResults, stream \in StreamOptions, fail \in BOOLEAN}

InitGate ==
    /\ conversations = EmptyDict
    /\ now = 0
    /\ uuid_count = 0
    /\ appended = EmptyDict
    /\ requests = <<>>
    /\ wake = cleanup_interval
    /\ returned = NoReturn
    /\ call \in GateCalls
    /\ ret = NoRet
    /\ threads = IdleThreads

GateReply == <<"a", " ">>

\* the search has returned call.results
GateApply ==
    /\ ret = NoRet
    /\ ret' = after_search(
                 [NewRequest(<<"q">>, call.stream, None) EXCEPT !.conversation_id = uuid4(1)],
                 Ok(call.results),
                 IF call.fail THEN Raise ELSE Ok(GateReply),
                 ChunksOf(GateReply))
    /\ UNCHANGED <<conversations, now, uuid_count, appended, requests, wake, returned, call,
                   threads>>

\* the next event of the stream
GateStreamNext ==
    /\ ret.pc = "streaming"
    /\ ret' = generate_stream(ret, generate_stream_response_with_ollama(
                                      ret.g, ret.chunks, call.fail))
    /\ UNCHANGED <<conversations, now, uuid_count, appended, requests, wake, returned, call,
                   threads>>

GateStreamClose ==
    /\ ret.pc = "final"
    /\ ret' = generate_stream_finally(ret)
    /\ UNCHANGED <<conversations, now, uuid_count, appended, requests, wake, returned, call,
                   threads>>

NextGate ==
    \/ GateApply
    \/ GateStreamNext
    \/ GateStreamClose

SpecGate == InitGate /\ [][NextGate]_vars

(***************************************************************************)
(* SpecQuery: build_enhanced_query on its own, for any question and history *)
(***************************************************************************)
MaxHistoryLen == 4      \* messages in the history handed to build_enhanced_query

QueryMessages ==
    { NewMessage("user", <<"u1">>, NoMetadata),
      NewMessage("user", <<"u2">>, NoMetadata),
      NewMessage("assistant", <<"a1">>, NoMetadata) }

RECURSIVE SeqsUpTo(_, _)
\* the sequences over S of length at most n
SeqsUpTo(S, n) ==
    IF n = 0 THEN {<<>>}
    ELSE SeqsUpTo(S, n - 1)
            \cup {Append(h, m) : h \in {x \in SeqsUpTo(S, n - 1) : Len(x) = n - 1}, m \in S}

QueryCalls ==
    {[fn |-> "build_enhanced_query", question |-> question, history |-> history] :
        question \in Questions, history \in SeqsUpTo(QueryMessages, MaxHistoryLen)}

InitQuery ==
    /\ conversations = EmptyDict
    /\ now = 0
    /\ uuid_count = 0
    /\ appended = EmptyDict
    /\ requests = <<>>
    /\ wake = cleanup_interval
    /\ returned = NoReturn
    /\ call \in QueryCalls
    /\ ret = NoRet
    /\ threads = IdleThreads

QueryApply ==
    /\ ret = NoRet
    /\ ret' = [pc |-> "returned",
               value |-> build_enhanced_query(call.question, call.history)]
    /\ UNCHANGED <<conversations, now, uuid_count, appended, requests, wake, returned, call,
                   threads>>

NextQuery == QueryApply

SpecQuery == InitQuery /\ [][NextQuery]_vars

(***************************************************************************)
(* SpecThreads: add_message in the workers of the thread pool and the      *)
(* sweep in the event loop's thread, interleaved statement by statement.   *)
(* A thread can be preempted between any two statements (and inside one,   *)
(* between the evaluation of the right-hand side of line 44 and its store).*)
(***************************************************************************)
MaxCalls == 5           \* add_message calls in one run of SpecThreads
MaxThreadConversations == 1     \* conversations created in one run of SpecThreads

\* the message of the k-th call
ThreadMessage(k) == NewMessage("user", <<"q">>, [call |-> k])

\* the calls that have ended
Ended(calls) == {k \in 1..Len(calls) : calls[k].status # "running"}

\* self.conversations[conversation_id] raises KeyError for an id not in the dict
KeyError(convs, conversation_id) == conversation_id \notin DOMAIN convs

\* conversation_manager.py lines 29-44, one statement of the call k that the
\* worker is in. The result: the store, the worker, and how the call stands.
add_message_step(convs, t, worker, k, conversation_id) ==
    LET go(pc) == [conversations |-> convs, worker |-> [worker EXCEPT !.pc = pc],
                   status |-> "running", added |-> FALSE]
        end(status) == [conversations |-> convs, worker |-> IdleWorker,
                        status |-> status, added |-> FALSE]
    IN  IF worker.pc = "line29"
        THEN IF conversation_id \notin DOMAIN convs THEN end("returned") ELSE go("line39")
        ELSE IF KeyError(convs, conversation_id) THEN end("raised")
        ELSE IF worker.pc = "line39"
        THEN [go("line40") EXCEPT
                !.conversations = [convs EXCEPT ![conversation_id].messages =
                                       Append(@, ThreadMessage(k))],
                !.added = TRUE]
        ELSE IF worker.pc = "line40"
        THEN [go("line43") EXCEPT
                !.conversations = [convs EXCEPT ![conversation_id].updated_at = t]]
        ELSE IF worker.pc = "line43"
        THEN IF Len(convs[conversation_id].messages) > max_history
             THEN go("line44") ELSE end("returned")
        ELSE IF worker.pc = "line44"
        THEN [go("line44_store") EXCEPT
                !.worker.sliced = LastN(convs[conversation_id].messages, max_history)]
        ELSE [end("returned") EXCEPT
                !.conversations = [convs EXCEPT ![conversation_id].messages =
                                       worker.sliced]]

\* the event loop's thread creates a conversation (ask_question, line 142)
ThreadCreate ==
    /\ uuid_count < MaxThreadConversations
    /\ uuid_count' = uuid_count + 1
    /\ conversations' = create_conversation(conversations, now, uuid4(uuid_count + 1))
    /\ appended' = DictSet(appended, uuid4(uuid_count + 1), <<>>)
    /\ UNCHANGED <<now, requests, wake, returned, harness>>

\* the thread pool hands an add_message background task to an idle worker,
\* the first one that is idle
ThreadStart(w) ==
    /\ threads.workers[w].pc = "idle"
    /\ \A v \in Workers : v < w => threads.workers[v].pc # "idle"
    /\ Len(threads.calls) < MaxCalls
    /\ \E conversation_id \in {uuid4(n) : n \in 1..uuid_count} :
          threads' = [threads EXCEPT
              !.workers[w] = [pc |-> "line29", call |-> Len(threads.calls) + 1,
                              sliced |-> <<>>],
              !.calls = Append(@, [conversation_id |-> conversation_id,
                                   before |-> Ended(threads.calls),
                                   status |-> "running", added |-> FALSE])]
    /\ UNCHANGED <<conversations, now, uuid_count, appended, requests, wake, returned,
                   call, ret>>

\* a worker executes its next statement
ThreadStep(w) ==
    /\ threads.workers[w].pc # "idle"
    /\ LET k == threads.workers[w].call
           conversation_id == threads.calls[k].conversation_id
           step == add_message_step(conversations, now, threads.workers[w], k,
                                    conversation_id)
       IN  /\ conversations' = step.conversations
           /\ threads' = [threads EXCEPT
                  !.workers[w] = step.worker,
                  !.calls[k].status = step.status,
                  !.calls[k].added = (@ \/ step.added)]
    /\ UNCHANGED <<now, uuid_count, appended, requests, wake, returned, call, ret>>

\* lines 66-71: the sweep reads the clock and collects the expired ids
SweepScan ==
    /\ threads.sweep.pc = "idle"
    /\ threads' = [threads EXCEPT
           !.sweep = [pc |-> "delete", expired_ids |-> expired_ids(conversations, now)]]
    /\ UNCHANGED <<conversations, now, uuid_count, appended, requests, wake, returned,
                   call, ret>>

\* lines 73-76: the sweep deletes them
SweepDelete ==
    /\ threads.sweep.pc = "delete"
    /\ conversations' = DictDel(conversations, threads.sweep.expired_ids)
    /\ threads' = [threads EXCEPT !.sweep = IdleSweep]
    /\ UNCHANGED <<now, uuid_count, appended, requests, wake, returned, call, ret>>

NextThreads ==
    \/ ThreadCreate
    \/ Tick
    \/ \E w \in Workers : ThreadStart(w)
    \/ \E w \in Workers : ThreadStep(w)
    \/ SweepScan
    \/ SweepDelete

SpecThreads == Init /\ [][NextThreads]_vars

(***************************************************************************)
(* SpecSearch: QdrantVectorDB.search of an instance built with any         *)
(* threshold, over any candidates, and the ask-cycle that follows it       *)
(***************************************************************************)
MaxCandidates == 3      \* points client.search returns

\* scores 0.1, 0.4, 0.5 and 0.8; thresholds 0.05, 0.3, 0.5 and 0.9
SearchScores == {10000, 40000, 50000, 80000}
SearchThresholds == {5000, 30000, 50000, 90000}
SearchCandidates == {Passage("d", NoMetadata, score) : score \in SearchScores}

SearchCalls ==
    {[fn |-> "search", raw |-> raw, threshold |-> threshold, stream |-> stream,
      fail |-> fail] :
        raw \in SeqsUpTo(SearchCandidates, MaxCandidates),
        threshold \in SearchThresholds, stream \in StreamOptions, fail \in BOOLEAN}

InitSearch ==
    /\ conversations = EmptyDict
    /\ now = 0
    /\ uuid_count = 0
    /\ appended = EmptyDict
    /\ requests = <<>>
    /\ wake = cleanup_interval
    /\ returned = NoReturn
    /\ call \in SearchCalls
    /\ ret = NoRet
    /\ threads = IdleThreads

\* main.py line 158 and on: client.search has returned call.raw, the instance
\* filters it and the handler goes on with what is left
SearchApply ==
    /\ ret = NoRet
    /\ ret' = after_search(
                 [NewRequest(<<"q">>, call.stream, None) EXCEPT !.conversation_id = uuid4(1)],
                 QdrantVectorDB_search(call.threshold, Ok(call.raw)),
                 IF call.fail THEN Raise ELSE Ok(GateReply),
                 ChunksOf(GateReply))
    /\ UNCHANGED <<conversations, now, uuid_count, appended, requests, wake, returned, call,
                   threads>>

NextSearch ==
    \/ SearchApply
    \/ GateStreamNext
    \/ GateStreamClose

SpecSearch == InitSearch /\ [][NextSearch]_vars

(***************************************************************************)
(* SpecSerial: the service with its ask-cycles one at a time. A cycle      *)
(* starts only when the one before it has run its background appends (or   *)
(* ended in an error); the clock and the periodic sweep go on. ret is      *)
(* the cycle in progress, call.count the number of cycles started; the     *)
(* log of appends is not kept, and of a cycle that is over only what it    *)
(* asked is kept. The model answers every time (a failure of the model     *)
(* changes the text of the assistant's turn and nothing else).             *)
(***************************************************************************)
MaxCycles == 3          \* ask-cycles in one run of SpecSerial
MaxSerialConversations == 1     \* conversations created in one run of SpecSerial

SerialCall(count) == [fn |-> "ask_question", count |-> count, fail |-> FALSE]

InitSerial ==
    /\ conversations = EmptyDict
    /\ now = 0
    /\ uuid_count = 0
    /\ appended = EmptyDict
    /\ requests = <<>>
    /\ wake = cleanup_interval
    /\ returned = NoReturn
    /\ call = SerialCall(0)
    /\ ret = NoRet
    /\ threads = IdleThreads

\* what is kept of a cycle that is over
Over(req) ==
    [pc |-> IF req.pc = "error" THEN "error" ELSE "done",
     question |-> req.question, enhanced_query |-> req.enhanced_query]

\* no cycle is in progress
SerialIdle == ret.pc \in {"none", "done", "error"}

\* POST /ask arrives when no cycle is in progress
SerialAsk ==
    /\ SerialIdle
    /\ call.count < MaxCycles
    /\ \E question \in Questions, stream \in StreamOptions, conversation_id \in AskIds,
          searched \in SearchOutcomes, reply \in LlmReplies :
          LET query == [question |-> question, stream |-> stream,
                        conversation_id |-> conversation_id]
              res == ask_question(conversations, now, uuid_count, query, searched,
                                  Ok(reply), ChunksOf(reply))
          IN  /\ res.uuid_count <= MaxSerialConversations
              /\ conversations' = res.conversations
              /\ uuid_count' = res.uuid_count
              /\ ret' = IF res.request.pc = "error" THEN Over(res.request)
                        ELSE res.request
              /\ call' = SerialCall(call.count + 1)
    /\ UNCHANGED <<now, appended, requests, wake, returned, threads>>

\* the RAGResponse reaches the caller
SerialSend ==
    /\ ret.pc = "returned"
    /\ ret' = [ret EXCEPT !.pc = "sent"]
    /\ UNCHANGED <<conversations, now, uuid_count, appended, requests, wake, returned, call,
                   threads>>

\* the next background task of the cycle runs
SerialRunTask ==
    /\ ret.pc = "sent"
    /\ ret.tasks # <<>>
    /\ LET task == Head(ret.tasks)
       IN  /\ conversations' = add_message(conversations, now, task.conversation_id,
                                           task.role, task.content, task.metadata)
           /\ ret' = IF Tail(ret.tasks) = <<>> THEN Over(ret)
                     ELSE [ret EXCEPT
                             !.tasks = Tail(@),
                             !.ran = Append(@, [role |-> task.role,
                                                content |-> task.content,
                                                applied |-> conversations' # conversations])]
    /\ UNCHANGED <<now, uuid_count, appended, requests, wake, returned, call, threads>>

NextSerial ==
    \/ SerialAsk
    \/ SerialSend
    \/ GateStreamNext
    \/ GateStreamClose
    \/ SerialRunTask
    \/ PeriodicCleanup
    \/ Tick

SpecSerial == InitSerial /\ [][NextSerial]_vars

(***************************************************************************)
(* SpecSplit: TextProcessor._split_text on its own, the test of its loop   *)
(* and the body of its loop as steps. SpecSplitLive adds that a thread     *)
(* that can go on does.                                                    *)
(***************************************************************************)
MaxTextLen == 4         \* characters in the text

SplitTexts == SeqsUpTo({"a", "b"}, MaxTextLen)
\* (chunk_size, chunk_overlap), chunk_size > chunk_overlap >= 0; the last
\* pair is the defaults of upload_file and TextProcessor.process
SplitSizes == {<<1, 0>>, <<2, 0>>, <<2, 1>>, <<3, 1>>, <<3, 2>>, <<1000, 200>>}

SplitCalls ==
    {[fn |-> "_split_text", text |-> text, chunk_size |-> sizes[1],
      chunk_overlap |-> sizes[2]] : text \in SplitTexts, sizes \in SplitSizes}

InitSplit ==
    /\ conversations = EmptyDict
    /\ now = 0
    /\ uuid_count = 0
    /\ appended = EmptyDict
    /\ requests = <<>>
    /\ wake = cleanup_interval
    /\ returned = NoReturn
    /\ call \in SplitCalls
    /\ ret = NoRet
    /\ threads = IdleThreads

\* the call is made
SplitEnter ==
    /\ ret = NoRet
    /\ ret' = split_text_enter
    /\ UNCHANGED <<conversations, now, uuid_count, appended, requests, wake, returned, call,
                   threads>>

\* the loop is tested, or its body runs
SplitStep ==
    /\ ret.pc \in {"line22", "line23"}
    /\ ret' = split_text_step(call.text, call.chunk_size, call.chunk_overlap, ret)
    /\ UNCHANGED <<conversations, now, uuid_count, appended, requests, wake, returned, call,
                   threads>>

NextSplit ==
    \/ SplitEnter
    \/ SplitStep

SpecSplit == InitSplit /\ [][NextSplit]_vars

SpecSplitLive == SpecSplit /\ WF_vars(NextSplit)

(***************************************************************************)
(* Properties of the Session Store (checked under SpecStore)               *)
(***************************************************************************)
\* C1: whatever sequence of create, append and sweep has been applied, no
\* conversation in the store holds more than max_history messages.
C1_BoundedHistory ==
    \A id \in DOMAIN conversations :
        Len(conversations[id].messages) <= max_history

\* more messages were appended to a conversation than it can hold, and it is full
C1_Witness ==
    \E id \in DOMAIN conversations :
        /\ Len(appended[id]) > max_history
        /\ Len(conversations[id].messages) = max_history

\* C2: once more than max_history messages have been appended to a conversation
\* that is still in the store, its history is exactly the last max_history
\* messages appended, in the order they were appended.
C2_MostRecentKept ==
    \A id \in DOMAIN conversations :
        Len(appended[id]) > max_history =>
            /\ Len(conversations[id].messages) = max_history
            /\ \A i \in 1..max_history :
                  conversations[id].messages[i]
                      = appended[id][Len(appended[id]) - max_history + i]

\* a conversation has overflowed and the message dropped differs from the one
\* that is now the oldest
C2_Witness ==
    \E id \in DOMAIN conversations :
        /\ Len(appended[id]) > max_history
        /\ appended[id][1] # conversations[id].messages[1]
        /\ conversations[id].messages[max_history] = appended[id][Len(appended[id])]

\* C5: a sweep removes a conversation if and only if now - updated_at > ttl,
\* leaves every other conversation as it was (so one appended to within the
\* last ttl seconds stays), and returns the number of conversations removed.
C5_SweepExactlyExpired ==
    [][ returned'.op = "cleanup" =>
          /\ DOMAIN conversations' \subseteq DOMAIN conversations
          /\ \A id \in DOMAIN conversations :
                (id \notin DOMAIN conversations')
                    <=> (now - conversations[id].updated_at > conversation_ttl)
          /\ \A id \in DOMAIN conversations' : conversations'[id] = conversations[id]
          /\ returned'.count
                = Cardinality(DOMAIN conversations \ DOMAIN conversations') ]_vars

\* a sweep has just removed one conversation and kept another, which holds
\* a message
C5_Witness ==
    /\ returned.op = "cleanup"
    /\ returned.count = 1
    /\ \E id \in DOMAIN conversations : conversations[id].messages # <<>>

(***************************************************************************)
(* Properties of the ask-cycle (checked under Spec)                        *)
(***************************************************************************)
\* the answer a request gave its caller: the answer of the body, or the
\* concatenation of the tokens streamed
AnswerOf(req) ==
    IF req.stream /\ req.branch = "Generate" THEN req.full_answer ELSE req.body.answer

\* the two appends of the request ran and each added its message: first the
\* user's question, then the assistant's answer
TurnAdded(req) ==
    req.ran = << [role |-> "user", content |-> req.question, applied |-> TRUE],
                 [role |-> "assistant", content |-> AnswerOf(req), applied |-> TRUE] >>

\* C3 as stated: every ask-cycle that has completed, background work included,
\* has added exactly two messages to its conversation: user with the question,
\* then assistant with the answer.
C3_TwoMessagesAlways ==
    \A r \in 1..Len(requests) :
        requests[r].pc = "done" => TurnAdded(requests[r])

\* C3 (amended): every ask-cycle that has completed, background work included,
\* and whose conversation is still in the store has added exactly two messages
\* to it: user with the question, then assistant with the answer. (An append
\* that runs after a sweep removed the conversation adds nothing.)
C3_TwoMessagesUnlessSwept ==
    \A r \in 1..Len(requests) :
        (requests[r].pc = "done"
            /\ requests[r].conversation_id \in DOMAIN conversations)
        => TurnAdded(requests[r])

\* a streamed cycle and a no-evidence cycle have completed and added their turns
C3_Witness ==
    \E r1, r2 \in 1..Len(requests) :
        /\ requests[r1].pc = "done" /\ requests[r2].pc = "done"
        /\ requests[r1].stream /\ requests[r1].branch = "Generate"
        /\ requests[r2].branch = "NoEvidence"
        /\ TurnAdded(requests[r1]) /\ TurnAdded(requests[r2])

\* C4: within a cycle the append of the user's turn runs before the append of
\* the assistant's turn, and neither runs before the response has gone out
\* (buffered) or the final event of the stream has been produced (streaming).
C4_UserThenAssistantAfterResponse ==
    \A r \in 1..Len(requests) :
        LET req == requests[r]
        IN  /\ Len(req.ran) <= 2
            /\ req.ran # <<>> =>
                  /\ req.pc \in {"sent", "done"}
                  /\ req.ran[1].role = "user"
                  /\ (req.stream /\ req.branch = "Generate") =>
                        (req.events # <<>> /\ req.events[Len(req.events)].is_final)
            /\ Len(req.ran) = 2 => req.ran[2].role = "assistant"

\* a streamed cycle and a buffered one have both run their two appends
C4_Witness ==
    \E r1, r2 \in 1..Len(requests) :
        /\ requests[r1].stream /\ requests[r1].branch = "Generate"
        /\ ~requests[r2].stream
        /\ Len(requests[r1].ran) = 2 /\ Len(requests[r2].ran) = 2

\* C6: resolving the conversation of an ask always succeeds. An id the store
\* knows is used and returned and nothing is created; with no id or an unknown
\* one exactly one conversation, with empty history, is created and its id is
\* the one used and returned; the only error an ask answers with is the 500 of
\* a failed retrieval, never an id-not-found.
C6_ResolveAlwaysSucceeds ==
    [][ /\ Len(requests') = Len(requests) + 1 =>
            LET req == requests'[Len(requests')]
                given == req.query_conversation_id
                id == req.conversation_id
            IN  /\ req.status \in {200, 500}
                /\ req.status = 500 => req.search_raised
                /\ req.pc = "returned" => req.body.conversation_id = id
                /\ IF given \in DOMAIN conversations
                   THEN /\ id = given
                        /\ ~req.created
                        /\ conversations' = conversations
                        /\ uuid_count' = uuid_count
                   ELSE /\ id \notin DOMAIN conversations
                        /\ req.created
                        /\ DOMAIN conversations' = DOMAIN conversations \cup {id}
                        /\ conversations'[id].messages = <<>>
                        /\ \A other \in DOMAIN conversations :
                              conversations'[other] = conversations[other]
        /\ \A r \in 1..Len(requests) :
              Len(requests'[r].events) > Len(requests[r].events) =>
                  requests'[r].events[Len(requests'[r].events)].conversation_id
                      = requests[r].conversation_id ]_vars

\* a made-up id was replaced by a new conversation, and a later ask reused
\* that conversation and completed
C6_Witness ==
    \E r1, r2 \in 1..Len(requests) :
        /\ r1 < r2
        /\ requests[r1].query_conversation_id = "bogus" /\ requests[r1].created
        /\ requests[r2].query_conversation_id = requests[r1].conversation_id
        /\ requests[r2].conversation_id = requests[r1].conversation_id
        /\ ~requests[r2].created
        /\ requests[r2].pc = "done"

\* C7: from the same store, with the same question and the same behaviour of
\* the backends, an ask with an unknown id leaves the store and the request
\* exactly as the ask without an id does (same branch, answer, sources, new
\* conversation and returned id), and the id returned differs from the one given.
C7_UnknownIdAsNoId ==
    [][ Len(requests') = Len(requests) + 1 =>
          LET req == requests'[Len(requests')]
              given == req.query_conversation_id
              query(id) == [question |-> req.question, stream |-> req.stream,
                            conversation_id |-> id]
          IN  (given # None /\ given \notin DOMAIN conversations) =>
                /\ req.conversation_id # given
                /\ req.status = 200 /\ ~req.stream => req.body.conversation_id # given
                /\ \A searched \in SearchOutcomes, reply \in LlmReplies, fail \in BOOLEAN :
                      LET llm == IF fail THEN Raise ELSE Ok(reply)
                          given_run == ask_question(conversations, now, uuid_count,
                                           query(given), searched, llm, ChunksOf(reply))
                          none_run == ask_question(conversations, now, uuid_count,
                                           query(None), searched, llm, ChunksOf(reply))
                      IN  given_run.request = req =>
                            /\ none_run.conversations = conversations'
                            /\ none_run.uuid_count = uuid_count'
                            /\ none_run.request
                                  = [req EXCEPT !.query_conversation_id = None] ]_vars

\* an ask named a conversation that had been swept, got a new one, and completed
C7_Witness ==
    \E r \in 1..Len(requests) :
        /\ requests[r].query_conversation_id = uuid4(1)
        /\ requests[r].created
        /\ requests[r].conversation_id = uuid4(2)
        /\ requests[r].pc = "done"

\* C10: in buffered mode a failure of the model is caught: the ask returns a
\* normal response (status 200) whose answer is the degraded-service message,
\* and the turn is recorded with that message as the assistant's content.
C10_BufferedFailureDegrades ==
    \A r \in 1..Len(requests) :
        LET req == requests[r]
        IN  (~req.stream /\ req.llm_failed) =>
              /\ req.status = 200
              /\ req.pc \in {"returned", "sent", "done"}
              /\ req.body.answer = DegradedMessage
              /\ Len(req.tasks) + Len(req.ran) = 2
              /\ \A i \in 1..Len(req.tasks) :
                    req.tasks[i].role = "assistant" =>
                        req.tasks[i].content = DegradedMessage
              /\ \A i \in 1..Len(req.ran) :
                    req.ran[i].role = "assistant" =>
                        req.ran[i].content = DegradedMessage
              /\ (req.pc = "done" /\ req.ran[2].applied) =>
                    \E i \in 1..Len(appended[req.conversation_id]) :
                        /\ appended[req.conversation_id][i].role = "assistant"
                        /\ appended[req.conversation_id][i].content = DegradedMessage

\* a buffered cycle whose model failed has completed and its assistant turn,
\* the degraded-service message, is in the history
C10_Witness ==
    \E r \in 1..Len(requests) :
        /\ ~requests[r].stream /\ requests[r].llm_failed
        /\ requests[r].pc = "done"
        /\ requests[r].conversation_id \in DOMAIN conversations
        /\ \E i \in 1..Len(conversations[requests[r].conversation_id].messages) :
              conversations[requests[r].conversation_id].messages[i]
                  = NewMessage("assistant", DegradedMessage,
                               NormalAssistantMetadata(requests[r].results))

\* C11 as stated: when the retrieval raises, the ask still returns a
\* successful response whose answer is the degraded-service message, and the
\* turn (question and that message) is scheduled for recording.
C11_RetrievalFailureDegrades ==
    \A r \in 1..Len(requests) :
        requests[r].search_raised =>
            /\ requests[r].status = 200
            /\ requests[r].body.answer = DegradedMessage
            /\ Len(requests[r].tasks) + Len(requests[r].ran) = 2

\* a streamed cycle: the handler reached Generate with the stream flag set
Streamed(req) == req.stream /\ req.branch = "Generate"

RECURSIVE NonFinalText(_)
\* the concatenation of the tokens of the events without the final marker
NonFinalText(events) ==
    IF events = <<>> THEN <<>>
    ELSE (IF Head(events).is_final THEN <<>> ELSE Head(events).token)
            \o NonFinalText(Tail(events))

\* C12: in a streamed cycle every event carries the cycle's conversation id
\* and only the last can carry the final marker; while the stream is open no
\* event is final; once it has ended, whether generation completed or failed,
\* the last event is final and its content is empty.
C12_OneFinalEventLastAndEmpty ==
    \A r \in 1..Len(requests) :
        LET req == requests[r]
            n == Len(req.events)
        IN  Streamed(req) =>
              /\ \A i \in 1..n : req.events[i].conversation_id = req.conversation_id
              /\ \A i \in 1..(n - 1) : ~req.events[i].is_final
              /\ req.pc = "streaming" => \A i \in 1..n : ~req.events[i].is_final
              /\ req.pc \in {"final", "sent", "done"} =>
                    /\ n >= 1
                    /\ req.events[n].is_final
                    /\ req.events[n].token = <<>>

\* one stream ended after the model failed part-way, another after it completed
C12_Witness ==
    \E r1, r2 \in 1..Len(requests) :
        /\ Streamed(requests[r1]) /\ Streamed(requests[r2])
        /\ requests[r1].pc = "done" /\ requests[r2].pc = "done"
        /\ requests[r1].llm_failed /\ Len(requests[r1].events) >= 3
        /\ ~requests[r2].llm_failed /\ Len(requests[r2].events) >= 3

\* C13 as stated: for the same output of the backend, the concatenation of
\* the non-final fragments of a streamed cycle that ended equals the answer a
\* buffered cycle returns.
C13_StreamEqualsBuffered ==
    \A r1, r2 \in 1..Len(requests) :
        (/\ Streamed(requests[r1]) /\ requests[r1].pc \in {"final", "sent", "done"}
         /\ ~requests[r1].llm_failed
         /\ ~requests[r2].stream /\ requests[r2].branch = "Generate"
         /\ ~requests[r2].llm_failed
         /\ requests[r1].results = requests[r2].results
         /\ requests[r1].question = requests[r2].question)
        => NonFinalText(requests[r1].events) = requests[r2].body.answer

\* C14: when the model fails during a stream, the fragments end with one
\* fallback fragment carrying the message buffered generation returns on
\* failure: the fallback is a fragment (not final), nothing but the final
\* event follows it, and a stream whose model failed has one.
C14_FallbackFragmentThenEnd ==
    \A r \in 1..Len(requests) :
        LET req == requests[r]
            n == Len(req.events)
        IN  Streamed(req) =>
              /\ \A k \in 1..n :
                    req.events[k].token = generate_response_with_ollama(Raise).value =>
                        /\ ~req.events[k].is_final
                        /\ \/ k = n
                           \/ /\ k = n - 1
                              /\ req.events[n].is_final
                              /\ req.events[n].token = <<>>
              /\ req.llm_failed =>
                    \E k \in 1..n :
                        req.events[k].token = generate_response_with_ollama(Raise).value
              /\ (req.g = "failed" /\ req.pc # "streaming") =>
                    (n >= 2 /\ req.events[n - 1].token = DegradedMessage)

\* the model failed after its first fragment; the stream gave that fragment,
\* the fallback fragment and the final event, and ended
C14_Witness ==
    \E r \in 1..Len(requests) :
        /\ Streamed(requests[r])
        /\ requests[r].pc = "sent"
        /\ Len(requests[r].events) = 3
        /\ requests[r].events[1].token = <<"a">>
        /\ requests[r].events[2].token = DegradedMessage
        /\ requests[r].full_answer = <<"a">> \o DegradedMessage

(***************************************************************************)
(* Properties of the relevance gate (checked under SpecGate)               *)
(***************************************************************************)
\* C8: the gate takes exactly one way. No passage: NoEvidence, with the fixed
\* no-relevant-information answer and no sources. Otherwise, every score below
\* 0.3: LowRelevance, with the fixed insufficient-relevance answer and the
\* passages retrieved as sources. Otherwise: Generate.
C8_GateRelevance ==
    ret.pc # "none" =>
        IF call.results = <<>>
        THEN /\ ret.branch = "NoEvidence"
             /\ ret.pc = "returned" /\ ret.status = 200
             /\ ret.body.answer = NoEvidenceAnswer
             /\ ret.body.sources = <<>>
        ELSE IF \A i \in 1..Len(call.results) : call.results[i].score < answer_threshold
        THEN /\ ret.branch = "LowRelevance"
             /\ ret.pc = "returned" /\ ret.status = 200
             /\ ret.body.answer = LowRelevanceAnswer
             /\ Len(ret.body.sources) = Len(call.results)
             /\ \A i \in 1..Len(call.results) :
                   ret.body.sources[i].text = call.results[i].text
        ELSE ret.branch = "Generate"

\* two passages, the better one just below the threshold, ended in LowRelevance
C8_Witness ==
    /\ ret.pc = "returned"
    /\ ret.branch = "LowRelevance"
    /\ Len(ret.body.sources) = 2
    /\ MaxScore(call.results) = answer_threshold - 1

\* C9: the language model is invoked only when the retrieval returned at least
\* one passage and the best score is at or above the threshold; a cycle that
\* ends in NoEvidence or LowRelevance never calls it.
C9_LlmOnlyOnGenerate ==
    ret.pc # "none" =>
        /\ ret.llm_called =>
              /\ call.results # <<>>
              /\ \E i \in 1..Len(call.results) :
                    call.results[i].score >= answer_threshold
        /\ ret.branch \in {"NoEvidence", "LowRelevance"} => ~ret.llm_called

\* the model was invoked with the best score exactly at the threshold
C9_Witness ==
    /\ ret.pc # "none"
    /\ ret.llm_called
    /\ MaxScore(call.results) = answer_threshold

(***************************************************************************)
(* More properties of the Session Store (checked under SpecStore)          *)
(***************************************************************************)
\* C19: an append to an id that is not in the store changes nothing (nothing
\* is created, nothing is modified, nothing is raised); an append to a known
\* id puts exactly its message at the end of that conversation (the earlier
\* messages keep their order, the oldest leaving when over capacity), sets its
\* updated_at to the current time and leaves every other conversation as it was.
C19_AppendFrame ==
    /\ [](\A id \in CallerIds \ DOMAIN conversations, m \in StoreMessages :
            add_message(conversations, now, id, m[1], m[2], m[3]) = conversations)
    /\ [][ \A id \in DOMAIN appended :
              (id \in DOMAIN appended' /\ Len(appended'[id]) = Len(appended[id]) + 1) =>
                LET old == conversations[id].messages
                    new == conversations'[id].messages
                    message == appended'[id][Len(appended'[id])]
                IN  /\ DOMAIN conversations' = DOMAIN conversations
                    /\ \A other \in DOMAIN conversations \ {id} :
                          conversations'[other] = conversations[other]
                    /\ Len(new) = (IF Len(old) + 1 <= max_history
                                   THEN Len(old) + 1 ELSE max_history)
                    /\ new[Len(new)] = message
                    /\ \A i \in 1..(Len(new) - 1) :
                          new[i] = old[Len(old) - Len(new) + 1 + i]
                    /\ conversations'[id].updated_at = now
                    /\ conversations'[id].created_at = conversations[id].created_at
                    /\ conversations'[id].id = conversations[id].id ]_vars

\* a later append to a full conversation has moved its updated_at on, while
\* another conversation, never appended to, still has the time of its creation
C19_Witness ==
    \E id, other \in DOMAIN conversations :
        /\ id # other
        /\ Len(appended[id]) > max_history
        /\ conversations[id].updated_at = now
        /\ conversations[id].created_at < now
        /\ conversations[other].messages = <<>>
        /\ conversations[other].updated_at = conversations[other].created_at

\* C20 as stated: the history of an unknown id is empty; for a known id and a
\* limit >= 0 it is the most recent `limit` messages retained, in order, so
\* never more than `limit`; without a limit it is everything retained; and
\* get_recent_context(id, n) is get_conversation_history(id, n).
C20_HistoryLimit ==
    \A id \in CallerIds :
        /\ \A limit \in 0..(max_history + 1) :
              LET history == get_conversation_history(conversations, id, <<limit>>)
              IN  /\ get_recent_context(conversations, id, limit) = history
                  /\ id \notin DOMAIN conversations => history = <<>>
                  /\ id \in DOMAIN conversations =>
                        LET messages == conversations[id].messages
                            k == IF limit <= Len(messages) THEN limit ELSE Len(messages)
                        IN  /\ Len(history) = k
                            /\ \A i \in 1..k :
                                  history[i] = messages[Len(messages) - k + i]
        /\ id \notin DOMAIN conversations =>
              get_conversation_history(conversations, id, <<>>) = <<>>
        /\ id \in DOMAIN conversations =>
              get_conversation_history(conversations, id, <<>>)
                  = conversations[id].messages

(***************************************************************************)
(* Properties of the query enhancement (checked under SpecQuery)           *)
(***************************************************************************)
\* part occurs in text as a contiguous piece
Contains(text, part) ==
    \E i \in 1..(Len(text) - Len(part) + 1) :
        SubSeq(text, i, i + Len(part) - 1) = part

\* C18 as stated: with an empty history the result is the question; with
\* exactly one user turn in the history it is the question; with two or more
\* user turns it is the question followed by a bracketed suffix that holds
\* the user turn before the most recent one; it never holds the content of an
\* assistant turn.
C18_EnhanceUsesPriorUserTurns ==
    ret.pc = "returned" =>
        LET q == call.question
            h == call.history
            users == SelectSeq(h, LAMBDA msg : msg.role = "user")
            n == Len(users)
        IN  /\ h = <<>> => ret.value = q
            /\ n = 1 => ret.value = q
            /\ n >= 2 =>
                  /\ SubSeq(ret.value, 1, Len(q)) = q
                  /\ Len(ret.value) > Len(q)
                  /\ Contains(SubSeq(ret.value, Len(q) + 1, Len(ret.value)),
                              users[n - 1].content)
            /\ \A i \in 1..Len(h) :
                  h[i].role = "assistant" => ~Contains(ret.value, h[i].content)

(***************************************************************************)
(* Properties of the store under concurrency (checked under SpecThreads)   *)
(***************************************************************************)
\* the calls whose messages a history holds
KeptCalls(messages) == {messages[i].metadata.call : i \in 1..Len(messages)}

\* C15 as stated: appends to one conversation are serialized. Once the
\* appends have completed, its history holds each retained message once, as
\* many as were appended up to the capacity; a message is missing only by
\* eviction of the oldest (nothing retained comes from an append that had
\* completed before the missing one began); and the retained messages are in
\* an order the appends could have had one after another.
C15_AppendsSerialized ==
    (\A w \in Workers : threads.workers[w].pc = "idle") =>
        \A id \in DOMAIN conversations :
            LET messages == conversations[id].messages
                done == {k \in 1..Len(threads.calls) :
                            /\ threads.calls[k].conversation_id = id
                            /\ threads.calls[k].added}
                kept == KeptCalls(messages)
            IN  /\ kept \subseteq done
                /\ Cardinality(kept) = Len(messages)
                /\ Len(messages) = (IF Cardinality(done) <= max_history
                                    THEN Cardinality(done) ELSE max_history)
                /\ \A lost \in done \ kept, k \in kept :
                      k \notin threads.calls[lost].before
                /\ \A i, j \in 1..Len(messages) :
                      i < j => messages[j].metadata.call
                                  \notin threads.calls[messages[i].metadata.call].before

\* C16 as stated: a sweep interleaved with an append to a conversation it
\* evicts never makes the append fail: every add_message call returns, having
\* either taken effect or been ignored, and the store stays a mapping of
\* well-formed conversations.
C16_SweepNeverFailsAppend ==
    /\ \A k \in 1..Len(threads.calls) : threads.calls[k].status # "raised"
    /\ \A id \in DOMAIN conversations :
          /\ conversations[id].id = id
          /\ DOMAIN conversations[id] = {"id", "created_at", "updated_at", "messages"}

(***************************************************************************)
(* Properties of the threshold filter (checked under SpecSearch)           *)
(***************************************************************************)
\* C21: the threshold filter returns exactly the candidates whose score is at
\* or above the threshold, in their original order; when no candidate reaches
\* the threshold the result is empty and the cycle ends in a NoEvidence or
\* LowRelevance terminal branch with its fixed answer, the model not invoked.
C21_ThresholdFilter ==
    ret.pc # "none" =>
        LET raw == call.raw
            kept == {i \in 1..Len(raw) : raw[i].score >= call.threshold}
            rank(i) == Cardinality({j \in kept : j <= i})
        IN  /\ Len(ret.results) = Cardinality(kept)
            /\ \A i \in kept : ret.results[rank(i)] = raw[i]
            /\ kept = {} =>
                  /\ ret.results = <<>>
                  /\ ret.pc = "returned"
                  /\ ret.branch \in {"NoEvidence", "LowRelevance"}
                  /\ ret.body.answer \in {NoEvidenceAnswer, LowRelevanceAnswer}
                  /\ ~ret.llm_called
                  /\ ret.events = <<>>

\* candidates scored 0.8, 0.4 and 0.1 against the threshold 0.3: the first two
\* are returned and the third is not
C21_Witness ==
    /\ ret.pc # "none"
    /\ call.threshold = 30000
    /\ call.raw = << Passage("d", NoMetadata, 80000), Passage("d", NoMetadata, 40000),
                     Passage("d", NoMetadata, 10000) >>
    /\ ret.results = << Passage("d", NoMetadata, 80000), Passage("d", NoMetadata, 40000) >>

Alternates(messages) ==
    \A i \in 1..(Len(messages) - 1) : messages[i].role # messages[i + 1].role

\* C23: when the ask-cycles run one at a time, between cycles every stored
\* history alternates user and assistant messages and, if it has a message,
\* ends with an assistant message; and in every cycle the enhanced query
\* handed to the retrieval is the question itself.
C23_SerialCyclesNeverEnhance ==
    /\ [](SerialIdle =>
            \A id \in DOMAIN conversations :
                LET messages == conversations[id].messages
                IN  /\ Alternates(messages)
                    /\ messages # <<>> => messages[Len(messages)].role = "assistant")
    /\ [][ call'.count = call.count + 1 =>
              ret'.enhanced_query = ret'.question ]_vars

\* the third cycle on one conversation has answered and not yet appended:
\* it found a history trimmed to capacity, its oldest message an assistant's
\* and its last two a user's and an assistant's, and its query was the bare
\* question
C23_Witness ==
    /\ ret.pc = "sent"
    /\ ret.ran = <<>>
    /\ call.count = 3
    /\ ~ret.created
    /\ ret.enhanced_query = ret.question
    /\ ret.conversation_id \in DOMAIN conversations
    /\ LET messages == conversations[ret.conversation_id].messages
       IN  /\ Len(messages) = max_history
           /\ messages[1].role = "assistant"
           /\ messages[Len(messages) - 1].role = "user"
           /\ messages[Len(messages)].role = "assistant"

(***************************************************************************)
(* Properties of the deployed thresholds (checked under Spec)              *)
(***************************************************************************)
\* C24: with the gateway's threshold 0.5 and the answer threshold 0.3, every
\* passage a cycle works with scores at least 0.5, so a retrieval result that
\* is not empty has a maximum score of at least 0.3 and no cycle ends in
\* LowRelevance: every cycle ends in NoEvidence, Generate or an error.
C24_LowRelevanceUnreachable ==
    \A r \in 1..Len(requests) :
        LET req == requests[r]
        IN  /\ \A i \in 1..Len(req.results) :
                  req.results[i].score >= similarity_threshold
            /\ req.results # <<>> => MaxScore(req.results) >= answer_threshold
            /\ req.branch \in {"NoEvidence", "Generate", "Error"}
            /\ req.body.answer # LowRelevanceAnswer

\* one cycle generated from the one passage left of two (the other scored
\* 0.4), and a cycle ended in NoEvidence
C24_Witness ==
    \E r1, r2 \in 1..Len(requests) :
        /\ requests[r1].branch = "Generate"
        /\ requests[r1].results = << Passage("d1", [domain |-> "api"], 81237) >>
        /\ requests[r2].branch = "NoEvidence"
        /\ requests[r2].pc = "done"

\* C25 as stated: an ask that answers its caller with an error leaves the
\* store exactly as it was before the request (no conversation is created)
\* and schedules no append.
C25_ErrorLeavesStoreUnchanged ==
    [][ (/\ Len(requests') = Len(requests) + 1
         /\ requests'[Len(requests')].status = 500)
        => /\ conversations' = conversations
           /\ requests'[Len(requests')].tasks = <<>> ]_vars

(***************************************************************************)
(* Properties of the text chunking (checked under SpecSplitLive)           *)
(***************************************************************************)
RECURSIVE Unoverlapped(_, _)
\* the chunks put end to end, each after the first without the characters
\* it repeats from the one before
Unoverlapped(chunks, chunk_overlap) ==
    IF chunks = <<>> THEN <<>>
    ELSE IF Len(chunks) = 1 THEN chunks[1]
    ELSE chunks[1]
            \o Unoverlapped([Tail(chunks) EXCEPT ![1] = SliceFrom(@, chunk_overlap)],
                            chunk_overlap)

\* C26 as stated: for every text and every chunk_size > chunk_overlap >= 0
\* the loop of _split_text comes to its return, and the chunks it returns,
\* no more than the text has characters, cover the whole text.
C26_SplitTextTerminates ==
    /\ <>(ret.pc = "returned")
    /\ [](ret.pc = "returned" =>
            /\ Len(ret.chunks) <= Len(call.text)
            /\ Unoverlapped(ret.chunks, call.chunk_overlap) = call.text)

====
